---------------------------- MODULE Spec2Model ----------------------------
(***************************************************************************)
(* BitsKee: the pixelation engine (scripts/pixelate.js), the application   *)
(* that drives it (app.js) and the drawing grid (scripts/canvas.js).       *)
(*                                                                         *)
(* Pixelator.pixelate and Pixelator.applyColorMode are modelled together   *)
(* with the JavaScript Number arithmetic they rely on: every `/`, `*` and  *)
(* `+` of the source is an IEEE-754 binary64 operation, rounded to nearest *)
(* (ties to even), and is computed here on 53-bit significands.            *)
(***************************************************************************)
EXTENDS Integers, Sequences, FiniteSets, TLC

VARIABLES
    palettes,      \* Pixelator.palettes, the engine's only long-lived object
    image,         \* the image object handed to the last pixelate call
    options,       \* the options object handed to the last pixelate call
    targetCanvas,  \* the caller's canvas: width, height and bitmap
    loc,           \* the locals of the last pixelate call and how it ended
    cmArgs,        \* the arguments of the last direct applyColorMode call
    cmResult,      \* what that call returned
    probe,         \* SpecDet: the input whose output is remembered
    ref            \* SpecDet: the outcome of the first call made with probe

VARIABLES
    currentMode,      \* App.currentMode
    currentAscii,     \* App.currentAscii
    outputText,       \* App.outputText.textContent
    loadedImage,      \* App.loadedImage
    statusText,       \* App.statusText.textContent
    pixelSizeSlider,  \* App.pixelSizeSlider.value
    colorModeSelect,  \* App.colorModeSelect.value
    gridCheckbox,     \* App.gridCheckbox.checked
    canvasWidthValue,   \* App.canvasWidth.value
    canvasHeightValue,  \* App.canvasHeight.value
    loads,            \* the processImage calls waiting in Pixelator.loadImage, oldest first
    lastLoad          \* history: the file of the latest processImage call, and how its load ended

VARIABLES
    definition,    \* which of the two DrawingCanvas objects of canvas.js runs
    container,     \* DrawingCanvas.container
    width,         \* DrawingCanvas.width
    height,        \* DrawingCanvas.height
    currentChar,   \* DrawingCanvas.currentChar
    isDrawing,     \* DrawingCanvas.isDrawing
    cells,         \* DrawingCanvas.cells: the textContent of each cell
    listeners      \* the elements of the page that carry drawing listeners

engineVars == <<palettes, image, options, targetCanvas, loc, cmArgs, cmResult, probe, ref>>
appVars ==
    <<currentMode, currentAscii, outputText, loadedImage, statusText, pixelSizeSlider,
      colorModeSelect, gridCheckbox, canvasWidthValue, canvasHeightValue, loads,
      lastLoad>>
drawVars == <<definition, container, width, height, currentChar, isDrawing, cells, listeners>>
vars == <<engineVars, appVars, drawVars>>

-----------------------------------------------------------------------------
(* Natural numbers of any size: little-endian sequences of 15-bit limbs,   *)
(* without leading zero limbs (zero is the empty sequence).                *)

LimbBits == 15
Base == 2 ^ LimbBits

RECURSIVE BigMulAdd(_, _, _)
\* x * a + c, for a limb-sized factor a and a carry c
BigMulAdd(x, a, c) ==
    IF x = <<>>
    THEN IF c = 0 THEN <<>> ELSE <<c % Base>> \o BigMulAdd(<<>>, a, c \div Base)
    ELSE LET v == x[1] * a + c
         IN  <<v % Base>> \o BigMulAdd(Tail(x), a, v \div Base)

RECURSIVE BigTrim(_)
BigTrim(x) ==
    IF x = <<>> THEN x
    ELSE IF x[Len(x)] = 0 THEN BigTrim(SubSeq(x, 1, Len(x) - 1)) ELSE x

BigFromInt(n) == BigMulAdd(<<>>, 0, n)

RECURSIVE BigToInt(_)
BigToInt(x) == IF x = <<>> THEN 0 ELSE x[1] + Base * BigToInt(Tail(x))

RECURSIVE BigAdd(_, _, _)
BigAdd(x, y, c) ==
    IF x = <<>> /\ y = <<>>
    THEN IF c = 0 THEN <<>> ELSE <<c>>
    ELSE LET a == IF x = <<>> THEN 0 ELSE x[1]
             b == IF y = <<>> THEN 0 ELSE y[1]
             v == a + b + c
         IN  <<v % Base>> \o BigAdd(IF x = <<>> THEN x ELSE Tail(x),
                                    IF y = <<>> THEN y ELSE Tail(y),
                                    v \div Base)

RECURSIVE BigDivRem(_, _)
\* quotient and remainder of x by a limb-sized divisor d
BigDivRem(x, d) ==
    IF x = <<>> THEN [q |-> <<>>, r |-> 0]
    ELSE LET hi == BigDivRem(Tail(x), d)
             v  == hi.r * Base + x[1]
         IN  [q |-> <<v \div d>> \o hi.q, r |-> v % d]

RECURSIVE IntBitLen(_)
IntBitLen(n) == IF n = 0 THEN 0 ELSE 1 + IntBitLen(n \div 2)

BigBitLen(x) ==
    IF x = <<>> THEN 0 ELSE (Len(x) - 1) * LimbBits + IntBitLen(x[Len(x)])

\* x * 2^s
BigShl(x, s) ==
    IF x = <<>> THEN x
    ELSE [i \in 1..(s \div LimbBits) |-> 0] \o BigMulAdd(x, 2 ^ (s % LimbBits), 0)

\* floor(x / 2^s)
BigShr(x, s) ==
    IF s \div LimbBits >= Len(x) THEN <<>>
    ELSE BigTrim(BigDivRem(SubSeq(x, (s \div LimbBits) + 1, Len(x)),
                           2 ^ (s % LimbBits)).q)

\* bit i of x (bit 0 is the least significant)
BigBit(x, i) ==
    IF i \div LimbBits >= Len(x) THEN 0
    ELSE (x[(i \div LimbBits) + 1] \div (2 ^ (i % LimbBits))) % 2

\* whether any of the bits 0..i-1 of x is set
BigAnyBelow(x, i) ==
    \E k \in 1..Len(x) :
        \/ k <= i \div LimbBits /\ x[k] # 0
        \/ k = (i \div LimbBits) + 1 /\ x[k] % (2 ^ (i % LimbBits)) # 0

RECURSIVE BigLess(_, _)
BigLess(x, y) ==
    IF Len(x) # Len(y) THEN Len(x) < Len(y)
    ELSE IF x = <<>> THEN FALSE
    ELSE IF x[Len(x)] # y[Len(y)] THEN x[Len(x)] < y[Len(y)]
    ELSE BigLess(SubSeq(x, 1, Len(x) - 1), SubSeq(y, 1, Len(y) - 1))

-----------------------------------------------------------------------------
(* JavaScript Numbers that are >= 0: a finite one is m * 2^e with m a      *)
(* significand of at most 53 bits; Infinity arises from a division by 0.   *)

MantissaBits == 53
QuotientShift == 75

Finite(m, e) == [inf |-> FALSE, m |-> m, e |-> e]
Infinity == [inf |-> TRUE, m |-> <<>>, e |-> 0]

\* the double nearest to x * 2^e (sticky: the exact value is a little above it)
RoundD(x, e, sticky) ==
    LET len == BigBitLen(x)
        s   == len - MantissaBits
    IN  IF s <= 0 THEN Finite(x, e)
        ELSE LET q    == BigShr(x, s)
                 half == BigBit(x, s - 1) = 1
                 rest == sticky \/ BigAnyBelow(x, s - 1)
                 up   == half /\ (rest \/ BigBit(q, 0) = 1)
             IN  Finite(IF up THEN BigAdd(q, <<1>>, 0) ELSE q, e + s)

NumD(n) == Finite(BigFromInt(n), 0)

\* n / d for integers n >= 0, d >= 0 (n / 0 is Infinity; 0 / 0, NaN, is never formed)
DivD(n, d) ==
    IF d = 0 THEN Infinity
    ELSE LET qr == BigDivRem(BigShl(BigFromInt(n), QuotientShift), d)
         IN  RoundD(BigTrim(qr.q), -QuotientShift, qr.r # 0)

\* a * x for an integer a >= 0
MulD(a, x) ==
    IF x.inf THEN x ELSE RoundD(BigTrim(BigMulAdd(x.m, a, 0)), x.e, FALSE)

AddD(x, y) ==
    LET e == IF x.e < y.e THEN x.e ELSE y.e
    IN  RoundD(BigAdd(BigShl(x.m, x.e - e), BigShl(y.m, y.e - e), 0), e, FALSE)

LessD(x, y) ==
    IF x.inf THEN FALSE
    ELSE IF y.inf THEN TRUE
    ELSE LET e == IF x.e < y.e THEN x.e ELSE y.e
         IN  BigLess(BigShl(x.m, x.e - e), BigShl(y.m, y.e - e))

\* Math.min
MinD(x, y) == IF LessD(y, x) THEN y ELSE x

\* Math.floor of a finite Number
FloorD(x) ==
    IF x.e >= 0 THEN BigToInt(BigShl(x.m, x.e)) ELSE BigToInt(BigShr(x.m, -x.e))

\* Math.ceil of a finite Number
CeilD(x) ==
    IF x.e < 0 /\ BigAnyBelow(x.m, -x.e) THEN FloorD(x) + 1 ELSE FloorD(x)

\* Math.round of a finite Number: to the nearest integer, a tie upwards
RoundHalfUpD(x) ==
    IF x.e < 0 THEN FloorD(x) + BigBit(x.m, (-x.e) - 1) ELSE FloorD(x)

-----------------------------------------------------------------------------
(* Pixelator.palettes and Pixelator.applyColorMode.                        *)

\* `null`, the value of palettes.grayscale
Null == <<>>

PixelatorPalettes ==
    [m \in {"16", "8", "grayscale", "1bit"} |->
        CASE m = "16" ->
               << <<0, 0, 0>>, <<128, 0, 0>>, <<0, 128, 0>>, <<128, 128, 0>>,
                  <<0, 0, 128>>, <<128, 0, 128>>, <<0, 128, 128>>, <<192, 192, 192>>,
                  <<128, 128, 128>>, <<255, 0, 0>>, <<0, 255, 0>>, <<255, 255, 0>>,
                  <<0, 0, 255>>, <<255, 0, 255>>, <<0, 255, 255>>, <<255, 255, 255>> >>
          [] m = "8" ->
               << <<0, 0, 0>>, <<255, 0, 0>>, <<0, 255, 0>>, <<0, 0, 255>>,
                  <<255, 255, 0>>, <<255, 0, 255>>, <<0, 255, 255>>, <<255, 255, 255>> >>
          [] m = "grayscale" -> Null
          [] m = "1bit" -> << <<0, 0, 0>>, <<255, 255, 255>> >>]

\* the properties every object literal inherits from Object.prototype: a
\* lookup of one of them finds an object that is truthy and is no array
ObjectPrototypeKeys ==
    {"constructor", "toString", "toLocaleString", "valueOf", "hasOwnProperty",
     "isPrototypeOf", "propertyIsEnumerable", "__proto__"}

\* this.palettes[mode]
PaletteLookup(pals, mode) ==
    IF mode \in DOMAIN pals
    THEN [kind |-> IF pals[mode] = Null THEN "null" ELSE "array", entries |-> pals[mode]]
    ELSE IF mode \in ObjectPrototypeKeys
    THEN [kind |-> "object", entries |-> <<>>]
    ELSE [kind |-> "undefined", entries |-> <<>>]

\* the literals 0.299, 0.587 and 0.114 as binary64 values
Luma299 == Finite(<<16777, 19136, 2883, 153>>, -54)
Luma587 == Finite(<<4194, 29360, 8912, 150>>, -53)
Luma114 == Finite(<<30409, 16252, 15466, 233>>, -56)

\* Math.floor in the place of Math.round
GrayscaleTruncated(r, g, b) ==
    FloorD(AddD(AddD(MulD(r, Luma299), MulD(g, Luma587)), MulD(b, Luma114)))

\* Math.round(0.299 * r + 0.587 * g + 0.114 * b)
Grayscale(r, g, b) ==
    RoundHalfUpD(AddD(AddD(MulD(r, Luma299), MulD(g, Luma587)), MulD(b, Luma114)))

\* the radicand of Math.sqrt(pow(r - c0, 2) + pow(g - c1, 2) + pow(b - c2, 2));
\* the sum is an integer below 2^18, computed exactly
Radicand(r, g, b, color) ==
    (r - color[1]) * (r - color[1]) + (g - color[2]) * (g - color[2])
        + (b - color[3]) * (b - color[3])

\* distance < minDistance, for distance = Math.sqrt(radicand) and minDistance
\* either Infinity (<<>>) or the Math.sqrt of an earlier radicand: binary64
\* Math.sqrt is strictly increasing on the integers 0..195075
DistanceNotAbove(radicand, minDistance) ==
    minDistance = <<>> \/ radicand <= minDistance[1]

DistanceBelow(radicand, minDistance) ==
    minDistance = <<>> \/ radicand < minDistance[1]

RECURSIVE NearestLoop(_, _, _, _, _, _, _)
\* the for-of loop over the palette, from entry i on
NearestLoop(palette, i, r, g, b, nearestColor, minDistance) ==
    IF i > Len(palette) THEN nearestColor
    ELSE LET distance == Radicand(r, g, b, palette[i])
         IN  IF DistanceBelow(distance, minDistance)
             THEN NearestLoop(palette, i + 1, r, g, b, palette[i], <<distance>>)
             ELSE NearestLoop(palette, i + 1, r, g, b, nearestColor, minDistance)

Returned(value) == [threw |-> "none", value |-> value]

\* [b, g, r] in the place of [r, g, b]
FullColorReversed(r, g, b) == <<b, g, r>>

\* return [r, g, b]
FullColor(r, g, b) == <<r, g, b>>
Thrown(error) == [threw |-> error, value |-> <<>>]

\* Pixelator.applyColorMode(r, g, b, mode), with this.palettes = pals
applyColorMode(pals, r, g, b, mode) ==
    IF mode = "full" THEN Returned(FullColor(r, g, b))
    ELSE IF mode = "grayscale"
    THEN LET gray == Grayscale(r, g, b) IN Returned(<<gray, gray, gray>>)
    ELSE LET palette == PaletteLookup(pals, mode)
         IN  IF palette.kind \in {"undefined", "null"} THEN Returned(<<r, g, b>>)
             ELSE IF palette.kind = "object"
             THEN Thrown("TypeError")   \* for-of over a value that is not iterable
             ELSE Returned(NearestLoop(palette.entries, 1, r, g, b,
                                       palette.entries[1], <<>>))

-----------------------------------------------------------------------------
(* Images and canvases.                                                    *)

\* the colours the pixels of the input images take, in order of use
ImageColors ==
    << <<10, 10, 10>>, <<240, 240, 240>>, <<64, 0, 0>>, <<64, 128, 2>>,
       <<200, 30, 90>>, <<0, 0, 0>>, <<255, 255, 255>> >>

\* the RGB of pixel (x, y) of a decoded image; images are opaque
ImagePixel(img, x, y) ==
    ImageColors[((x + 3 * y + img.seed) % Len(ImageColors)) + 1]

\* a canvas pixel: transparent black until filled; lines counts the strokes
\* of rgba(0, 0, 0, 0.3) composited over it since
Transparent == [rgb |-> <<0, 0, 0>>, opaque |-> FALSE, lines |-> 0]
Filled(color) == [rgb |-> color, opaque |-> TRUE, lines |-> 0]

CanvasPixels(w, h) == (0..(w - 1)) \X (0..(h - 1))

\* canvas.width = w; canvas.height = h: either assignment replaces the
\* bitmap by a transparent black one of the new size
SetSizeIfChanged(canvas, w, h) ==
    IF canvas.width = w /\ canvas.height = h THEN canvas
    ELSE [width |-> w, height |-> h, data |-> [p \in CanvasPixels(w, h) |-> Transparent]]

SetSize(canvas, w, h) ==
    [width |-> w, height |-> h, data |-> [p \in CanvasPixels(w, h) |-> Transparent]]

\* ctx.fillStyle = rgb(...); ctx.fillRect(x, y, w, h), clipped to the bitmap
fillRect(canvas, x, y, w, h, color) ==
    [canvas EXCEPT !.data =
        [p \in DOMAIN canvas.data |->
            IF x <= p[1] /\ p[1] < x + w /\ y <= p[2] /\ p[2] < y + h
            THEN Filled(color) ELSE canvas.data[p]]]

\* a 1-wide stroke from (x + 0.5, 0) to (x + 0.5, height): pixel column x
strokeColumn(canvas, x) ==
    [canvas EXCEPT !.data =
        [p \in DOMAIN canvas.data |->
            IF p[1] = x THEN [canvas.data[p] EXCEPT !.lines = @ + 1]
            ELSE canvas.data[p]]]

\* a 1-wide stroke from (0, y + 0.5) to (width, y + 0.5): pixel row y
strokeRow(canvas, y) ==
    [canvas EXCEPT !.data =
        [p \in DOMAIN canvas.data |->
            IF p[2] = y THEN [canvas.data[p] EXCEPT !.lines = @ + 1]
            ELSE canvas.data[p]]]

\* tempCtx.drawImage(image, 0, 0, scaledWidth, scaledHeight) without
\* smoothing, read back by getImageData: sample (x, y) is the image pixel
\* under the centre of cell (x, y)
SamplePixel(img, scaledWidth, scaledHeight, x, y) ==
    ImagePixel(img, ((2 * x + 1) * img.width) \div (2 * scaledWidth),
                    ((2 * y + 1) * img.height) \div (2 * scaledHeight))

-----------------------------------------------------------------------------
(* Pixelator.pixelate.                                                     *)

\* an option that is absent is <<>>, one that is given is <<value>>
Absent == <<>>

defaultPixelSize == 8
maxSize == 400
gridMinBlock == 3

\* options.pixelSize || 8
PixelSizeOf(opts) ==
    IF opts.pixelSize = Absent \/ opts.pixelSize[1] = 0
    THEN defaultPixelSize ELSE opts.pixelSize[1]

\* options.colorMode || 'full'
ColorModeOf(opts) ==
    IF opts.colorMode = Absent \/ opts.colorMode[1] = ""
    THEN "full" ELSE opts.colorMode[1]

\* options.showGrid || false
ShowGridOf(opts) ==
    IF opts.showGrid = Absent THEN FALSE ELSE opts.showGrid[1]

\* the state the drawing loops work on
Drawing(canvas, pals, threw) == [canvas |-> canvas, palettes |-> pals, threw |-> threw]

\* [r, g, b] = this.applyColorMode(r, g, b, colorMode), for the sample src
ReducedColor(pals, src, colorMode) ==
    applyColorMode(pals, src[1], src[2], src[3], colorMode)

\* the palette left by a loop body that also wrote the sample through the
\* array applyColorMode returned (a palette entry, for a palette mode)
PalettesAliased(pals, src, rgb, colorMode) ==
    IF colorMode \in DOMAIN pals /\ pals[colorMode] # Null /\ rgb.threw = "none"
    THEN [pals EXCEPT ![colorMode] =
            [i \in 1..Len(@) |-> IF @[i] = rgb.value THEN src ELSE @[i]]]
    ELSE pals

\* the palettes after the loop body: it reads the returned array and never
\* writes to it
PalettesAfterStep(pals, src, rgb, colorMode) == pals

\* a fill whose block sides are rounded down
FillBlockFloored(st, pals, rgb, blockW, blockH, x, y) ==
    IF rgb.threw # "none" THEN [st EXCEPT !.threw = rgb.threw]
    ELSE [st EXCEPT
            !.canvas = fillRect(st.canvas, FloorD(MulD(x, blockW)),
                                FloorD(MulD(y, blockH)),
                                FloorD(blockW), FloorD(blockH), rgb.value),
            !.palettes = pals]

\* ctx.fillStyle = ...; ctx.fillRect(floor(x * blockW), floor(y * blockH),
\*                                   ceil(blockW), ceil(blockH))
FillBlock(st, pals, rgb, blockW, blockH, x, y) ==
    IF rgb.threw # "none" THEN [st EXCEPT !.threw = rgb.threw]
    ELSE [st EXCEPT
            !.canvas = fillRect(st.canvas, FloorD(MulD(x, blockW)),
                                FloorD(MulD(y, blockH)),
                                CeilD(blockW), CeilD(blockH), rgb.value),
            !.palettes = pals]

ReduceAndFill(st, src, rgb, blockW, blockH, colorMode, x, y) ==
    FillBlock(st, PalettesAfterStep(st.palettes, src, rgb, colorMode),
              rgb, blockW, blockH, x, y)

\* the body of the inner loop for sample (x, y)
PixelStep(st, src, blockW, blockH, colorMode, x, y) ==
    ReduceAndFill(st, src, ReducedColor(st.palettes, src, colorMode),
                  blockW, blockH, colorMode, x, y)

RECURSIVE DrawRow(_, _, _, _, _, _, _, _, _, _)
\* for (let x = 0; x < scaledWidth; x++): the iterations x = lo .. hi - 1 in
\* order (a range of several is run as its lower half, then its upper half)
DrawRow(st, img, sw, sh, blockW, blockH, colorMode, y, lo, hi) ==
    IF lo >= hi \/ st.threw # "none" THEN st
    ELSE IF hi = lo + 1
    THEN PixelStep(st, SamplePixel(img, sw, sh, lo, y), blockW, blockH, colorMode, lo, y)
    ELSE DrawRow(DrawRow(st, img, sw, sh, blockW, blockH, colorMode, y,
                         lo, (lo + hi) \div 2),
                 img, sw, sh, blockW, blockH, colorMode, y, (lo + hi) \div 2, hi)

RECURSIVE DrawRows(_, _, _, _, _, _, _, _, _)
\* for (let y = 0; y < scaledHeight; y++): the iterations y = lo .. hi - 1
DrawRows(st, img, sw, sh, blockW, blockH, colorMode, lo, hi) ==
    IF lo >= hi \/ st.threw # "none" THEN st
    ELSE IF hi = lo + 1
    THEN DrawRow(st, img, sw, sh, blockW, blockH, colorMode, lo, 0, sw)
    ELSE DrawRows(DrawRows(st, img, sw, sh, blockW, blockH, colorMode,
                           lo, (lo + hi) \div 2),
                  img, sw, sh, blockW, blockH, colorMode, (lo + hi) \div 2, hi)

\* showGrid && blockW >= 3 && blockH >= 3, with a threshold of 2
GridEnabledFrom2(showGrid, blockW, blockH) ==
    showGrid /\ ~LessD(blockW, NumD(gridMinBlock - 1))
             /\ ~LessD(blockH, NumD(gridMinBlock - 1))

\* showGrid && blockW >= 3 && blockH >= 3
GridEnabled(showGrid, blockW, blockH) ==
    showGrid /\ ~LessD(blockW, NumD(gridMinBlock))
             /\ ~LessD(blockH, NumD(gridMinBlock))

RECURSIVE GridColumns(_, _, _, _)
\* for (let x = 0; x <= scaledWidth; x++) stroke the line at
\* floor(x * blockW) + 0.5: the iterations x = lo .. hi - 1
GridColumns(canvas, blockW, lo, hi) ==
    IF lo >= hi THEN canvas
    ELSE IF hi = lo + 1 THEN strokeColumn(canvas, FloorD(MulD(lo, blockW)))
    ELSE GridColumns(GridColumns(canvas, blockW, lo, (lo + hi) \div 2),
                     blockW, (lo + hi) \div 2, hi)

RECURSIVE GridRows(_, _, _, _)
\* for (let y = 0; y <= scaledHeight; y++) stroke the line at
\* floor(y * blockH) + 0.5: the iterations y = lo .. hi - 1
GridRows(canvas, blockH, lo, hi) ==
    IF lo >= hi THEN canvas
    ELSE IF hi = lo + 1 THEN strokeRow(canvas, FloorD(MulD(lo, blockH)))
    ELSE GridRows(GridRows(canvas, blockH, lo, (lo + hi) \div 2),
                  blockH, (lo + hi) \div 2, hi)

NotCalled ==
    [called |-> FALSE, pixelSize |-> 0, colorMode |-> "", showGrid |-> FALSE,
     scaledWidth |-> 0, scaledHeight |-> 0, canvasWidth |-> 0, canvasHeight |-> 0,
     threw |-> "none", gridDrawn |-> FALSE]

\* what a call leaves: the canvas, the palettes, the image and its locals
Outcome(canvas, pals, img, locals, threw, gridDrawn) ==
    [canvas |-> canvas, palettes |-> pals, image |-> img,
     loc |-> [locals EXCEPT !.threw = threw, !.gridDrawn = gridDrawn]]

\* "Draw grid if enabled" and return
DrawGrid(drawn, img, locals, blockW, blockH, grid) ==
    IF drawn.threw # "none"
    THEN Outcome(drawn.canvas, drawn.palettes, img, locals, drawn.threw, FALSE)
    ELSE Outcome(IF grid
                 THEN GridRows(GridColumns(drawn.canvas, blockW, 0, locals.scaledWidth + 1),
                               blockH, 0, locals.scaledHeight + 1)
                 ELSE drawn.canvas,
                 drawn.palettes, img, locals, "none", grid)

\* "Draw pixelated version"
DrawBlocks(pals, sized, img, locals, blockW, blockH) ==
    DrawGrid(DrawRows(Drawing(sized, pals, "none"), img, locals.scaledWidth,
                      locals.scaledHeight, blockW, blockH, locals.colorMode,
                      0, locals.scaledHeight),
             img, locals, blockW, blockH,
             GridEnabled(locals.showGrid, blockW, blockH))

\* the temp canvas: getImageData(0, 0, sw, sh) throws when sw or sh is 0;
\* otherwise "Calculate pixel block size in output"
SampleImage(pals, sized, img, locals) ==
    IF locals.scaledWidth = 0 \/ locals.scaledHeight = 0
    THEN Outcome(sized, pals, img, locals, "IndexSizeError", FALSE)
    ELSE DrawBlocks(pals, sized, img, locals,
                    DivD(locals.canvasWidth, locals.scaledWidth),
                    DivD(locals.canvasHeight, locals.scaledHeight))

\* targetCanvas.width = canvasWidth; targetCanvas.height = canvasHeight
SizeCanvas(pals, canvas, img, locals) ==
    SampleImage(pals, SetSize(canvas, locals.canvasWidth, locals.canvasHeight),
                img, locals)

Locals(pixelSize, colorMode, showGrid, scaledWidth, scaledHeight, canvasWidth, canvasHeight) ==
    [called |-> TRUE, pixelSize |-> pixelSize, colorMode |-> colorMode,
     showGrid |-> showGrid, scaledWidth |-> scaledWidth, scaledHeight |-> scaledHeight,
     canvasWidth |-> canvasWidth, canvasHeight |-> canvasHeight,
     threw |-> "none", gridDrawn |-> FALSE]

\* a canvas twice as high as the scale makes it
CanvasSizeStretched(pals, canvas, img, pixelSize, colorMode, showGrid, scaledWidth, scaledHeight, scale) ==
    SizeCanvas(pals, canvas, img,
               Locals(pixelSize, colorMode, showGrid, scaledWidth, scaledHeight,
                      FloorD(MulD(scaledWidth, scale)), 2 * FloorD(MulD(scaledHeight, scale))))

\* canvasWidth = floor(scaledWidth * scale), canvasHeight = floor(scaledHeight * scale)
CanvasSize(pals, canvas, img, pixelSize, colorMode, showGrid, scaledWidth, scaledHeight, scale) ==
    SizeCanvas(pals, canvas, img,
               Locals(pixelSize, colorMode, showGrid, scaledWidth, scaledHeight,
                      FloorD(MulD(scaledWidth, scale)), FloorD(MulD(scaledHeight, scale))))

\* a scale that may exceed pixelSize by one
ScaleOneMore(pals, canvas, img, pixelSize, colorMode, showGrid, scaledWidth, scaledHeight) ==
    CanvasSize(pals, canvas, img, pixelSize, colorMode, showGrid, scaledWidth, scaledHeight,
               MinD(MinD(DivD(maxSize, scaledWidth), DivD(maxSize, scaledHeight)),
                    NumD(pixelSize + 1)))

\* scale = Math.min(maxSize / scaledWidth, maxSize / scaledHeight, pixelSize)
Scale(pals, canvas, img, pixelSize, colorMode, showGrid, scaledWidth, scaledHeight) ==
    CanvasSize(pals, canvas, img, pixelSize, colorMode, showGrid, scaledWidth, scaledHeight,
               MinD(MinD(DivD(maxSize, scaledWidth), DivD(maxSize, scaledHeight)),
                    NumD(pixelSize)))

\* scaledWidth = floor(image.width / pixelSize), scaledHeight likewise
ScaledSize(pals, canvas, img, pixelSize, colorMode, showGrid) ==
    Scale(pals, canvas, img, pixelSize, colorMode, showGrid,
          FloorD(DivD(img.width, pixelSize)), FloorD(DivD(img.height, pixelSize)))

\* pixelate(img, opts, canvas) with this.palettes = pals
pixelate(pals, canvas, img, opts) ==
    ScaledSize(pals, canvas, img, PixelSizeOf(opts), ColorModeOf(opts), ShowGridOf(opts))

-----------------------------------------------------------------------------
(* The inputs of the model.                                                *)

MaxDim == 5          \* the sides of the small images are 1..MaxDim
MaxSeed == 0         \* the pixel patterns of the images are 0..MaxSeed
MaxPixelSize == 3    \* the pixelSize options 0..MaxPixelSize, besides 64
MaxDetDim == 2       \* SpecDet: the sides of the images are 1..MaxDetDim

Image(w, h, seed) == [width |-> w, height |-> h, seed |-> seed]
Options(pixelSize, colorMode, showGrid) ==
    [pixelSize |-> pixelSize, colorMode |-> colorMode, showGrid |-> showGrid]
Input(img, opts) == [img |-> img, opts |-> opts]

SmallImages ==
    {Image(w, h, s) : w \in 1..MaxDim, h \in 1..MaxDim, s \in 0..MaxSeed}

PixelSizeOptions == {Absent} \cup {<<n>> : n \in 0..MaxPixelSize} \cup {<<64>>}

ColorModeOptions ==
    {Absent, <<"full">>, <<"16">>, <<"grayscale">>, <<"1bit">>,
     <<"sepia">>, <<"constructor">>}

ShowGridOptions == {Absent, <<TRUE>>, <<FALSE>>}

SmallInputs ==
    {Input(img, Options(ps, cm, sg)) :
        img \in SmallImages, ps \in PixelSizeOptions,
        cm \in ColorModeOptions, sg \in ShowGridOptions}

\* images as large as the default pixelSize, and images whose sample grid
\* is large enough for the cap of 400 to apply: <<width, height, pixelSize>>
LargeInputs ==
    {Input(Image(d[1], d[2], 0), Options(d[3], cm, sg)) :
        d \in {<<8, 8, Absent>>, <<17, 9, <<0>> >>, <<128, 64, <<64>> >>,
               <<2, 2000, <<2>> >>, <<578, 2, <<2>> >>, <<416, 32, <<32>> >>,
               <<804, 4, <<2>> >>},
        cm \in {Absent, <<"1bit">>}, sg \in {<<TRUE>>}}

Inputs == SmallInputs \cup LargeInputs

DetInputs ==
    {Input(Image(w, h, 0), Options(ps, cm, sg)) :
        w \in 1..MaxDetDim, h \in 1..MaxDetDim,
        ps \in {<<1>>, <<2>>},
        cm \in {<<"full">>, <<"16">>, <<"constructor">>},
        sg \in {<<TRUE>>, <<FALSE>>}}

ProbeInputs ==
    {Input(Image(2, 2, 0), Options(<<1>>, cm, <<TRUE>>)) :
        cm \in {<<"16">>, <<"constructor">>}}

ChannelValues == {0, 2, 10, 64, 128, 240, 255}

DirectModes ==
    {"full", "16", "8", "grayscale", "1bit", "sepia", "undefined", "constructor"}

-----------------------------------------------------------------------------
(* The objects of app.js and scripts/canvas.js as their literals leave     *)
(* them, before App.init() has run.  A string of the page is a sequence of *)
(* characters, so that its length is the number of characters it shows.    *)

EmptyString == <<>>
Blank == <<" ">>

\* const App = { currentMode: 'pixelate', currentAscii: '', loadedImage: null }
AppUnused ==
    /\ currentMode = "pixelate"
    /\ currentAscii = EmptyString
    /\ outputText = EmptyString
    /\ loadedImage = Null
    /\ statusText = ""
    /\ pixelSizeSlider = <<"8">>
    /\ colorModeSelect = "full"
    /\ gridCheckbox = FALSE
    /\ canvasWidthValue = EmptyString
    /\ canvasHeightValue = EmptyString
    /\ loads = <<>>
    /\ lastLoad = Null

\* the two object literals of scripts/canvas.js: width: 80, height: 40 in the
\* first and width: 20, height: 20 in the second
LiteralWidth(d) == IF d = 1 THEN 80 ELSE 20
LiteralHeight(d) == IF d = 1 THEN 40 ELSE 20

\* const DrawingCanvas = { container: null, grid: null, width, height,
\*                         currentChar: '@', isDrawing: false, cells: [] }
DrawUnused(d) ==
    /\ definition = d
    /\ container = Null
    /\ width = LiteralWidth(d)
    /\ height = LiteralHeight(d)
    /\ currentChar = <<"@">>
    /\ isDrawing = FALSE
    /\ cells = <<>>
    /\ listeners = {}

-----------------------------------------------------------------------------
(* The state machine.                                                      *)

\* the caller's canvas before the first call: nothing drawn on it
EmptyCanvas == [width |-> 0, height |-> 0, data |-> [p \in CanvasPixels(0, 0) |-> Transparent]]

NoImage == Image(0, 0, 0)
NoOptions == Options(Absent, Absent, Absent)
NoColorCall == <<>>

\* Pixelator.pixelate(img, opts, targetCanvas)
Pixelate(img, opts) ==
    LET out == pixelate(palettes, targetCanvas, img, opts)
    IN  /\ image' = out.image
        /\ options' = opts
        /\ targetCanvas' = out.canvas
        /\ palettes' = out.palettes
        /\ loc' = out.loc
        /\ UNCHANGED <<cmArgs, cmResult>>

\* Spec: one image, one options object and one canvas, and the calls of
\* pixelate on them
Init ==
    /\ palettes = PixelatorPalettes
    /\ \E in \in Inputs : image = in.img /\ options = in.opts
    /\ targetCanvas = EmptyCanvas
    /\ loc = NotCalled
    /\ cmArgs = NoColorCall
    /\ cmResult = NoColorCall
    /\ probe = NoColorCall
    /\ ref = <<>>
    /\ AppUnused
    /\ DrawUnused(2)

Next == Pixelate(image, options) /\ UNCHANGED <<probe, ref, appVars, drawVars>>

Spec == Init /\ [][Next]_vars

\* SpecColor: the arguments of one direct call of applyColorMode, and the call
InitColor ==
    /\ palettes = PixelatorPalettes
    /\ image = NoImage
    /\ options = NoOptions
    /\ targetCanvas = EmptyCanvas
    /\ loc = NotCalled
    /\ cmArgs \in ChannelValues \X ChannelValues \X ChannelValues \X DirectModes
    /\ cmResult = NoColorCall
    /\ probe = NoColorCall
    /\ ref = <<>>
    /\ AppUnused
    /\ DrawUnused(2)

\* Pixelator.applyColorMode(r, g, b, mode), called directly
ApplyColorMode ==
    /\ cmResult' = <<applyColorMode(palettes, cmArgs[1], cmArgs[2], cmArgs[3], cmArgs[4])>>
    /\ UNCHANGED <<palettes, image, options, targetCanvas, loc, cmArgs, probe, ref>>
    /\ UNCHANGED <<appVars, drawVars>>

NextColor == ApplyColorMode

SpecColor == InitColor /\ [][NextColor]_vars

\* SpecDet: pixelate calls on any inputs in any order; the outcome of the
\* first call made with the input `probe` is kept in ref, with whether
\* another input was pixelated since
InitDet ==
    /\ palettes = PixelatorPalettes
    /\ image = NoImage
    /\ options = NoOptions
    /\ targetCanvas = EmptyCanvas
    /\ loc = NotCalled
    /\ cmArgs = NoColorCall
    /\ cmResult = NoColorCall
    /\ probe \in ProbeInputs
    /\ ref = <<>>
    /\ AppUnused
    /\ DrawUnused(2)

PixelateDet(in) ==
    /\ Pixelate(in.img, in.opts)
    /\ probe' = probe
    /\ UNCHANGED <<appVars, drawVars>>
    /\ ref' = IF ref = <<>>
              THEN IF in = probe
                   THEN <<[canvas |-> targetCanvas', threw |-> loc'.threw, between |-> FALSE]>>
                   ELSE ref
              ELSE IF in = probe THEN ref
                   ELSE <<[ref[1] EXCEPT !.between = TRUE]>>

NextDet == \E in \in DetInputs : PixelateDet(in)

SpecDet == InitDet /\ [][NextDet]_vars

-----------------------------------------------------------------------------
(* The claims.                                                             *)

RecognisedModes == {"full", "16", "8", "grayscale", "1bit"}

Completed == loc.called /\ loc.threw = "none"

\* C1: for an image of width and height >= 1 and a pixelSize in [2,32]
\* (and a recognised or absent colorMode), pixelate completes without
\* throwing and leaves a canvas whose width and height are both in [1,400].
C1_OutputWithinBounds ==
    (/\ loc.called
     /\ image.width >= 1 /\ image.height >= 1
     /\ options.pixelSize # Absent /\ options.pixelSize[1] \in 2..32
     /\ loc.colorMode \in RecognisedModes)
    => /\ loc.threw = "none"
       /\ targetCanvas.width \in 1..maxSize
       /\ targetCanvas.height \in 1..maxSize

\* C2: the sample grid pixelate works with is never 0 wide or 0 high: a
\* dimension that floor(dimension / pixelSize) makes 0 is clamped to 1.
C2_SampleGridAtLeastOne ==
    loc.called => loc.scaledWidth >= 1 /\ loc.scaledHeight >= 1

ColorCalled == cmResult # NoColorCall
ColorValue == cmResult[1].value

\* C3: for the modes 16, 8 and 1bit applyColorMode returns the entry of the
\* mode's palette that is nearest to (r, g, b) in squared Euclidean
\* distance, and of several equally near entries the first of the palette.
C3_NearestPaletteEntry ==
    (ColorCalled /\ cmArgs[4] \in {"16", "8", "1bit"})
    => LET pal == PixelatorPalettes[cmArgs[4]]
           d(c) == (cmArgs[1] - c[1]) * (cmArgs[1] - c[1])
                     + (cmArgs[2] - c[2]) * (cmArgs[2] - c[2])
                     + (cmArgs[3] - c[3]) * (cmArgs[3] - c[3])
       IN  /\ cmResult[1].threw = "none"
           /\ \E i \in 1..Len(pal) :
                 /\ ColorValue = pal[i]
                 /\ \A j \in 1..Len(pal) : d(pal[i]) <= d(pal[j])
                 /\ \A j \in 1..(i - 1) : d(pal[j]) > d(pal[i])
           /\ (cmArgs = <<10, 10, 10, "1bit">> => ColorValue = <<0, 0, 0>>)
           /\ (cmArgs = <<240, 240, 240, "1bit">> => ColorValue = <<255, 255, 255>>)

\* a colour as near to (128,0,0) as to (0,0,0), the earlier entry, was reduced
C3_TieTakesFirst ==
    /\ ColorCalled
    /\ cmArgs = <<64, 0, 0, "16">>
    /\ ColorValue = <<0, 0, 0>>

WeightedSum == 299 * cmArgs[1] + 587 * cmArgs[2] + 114 * cmArgs[3]

\* C4 as stated: for the mode grayscale applyColorMode returns (L, L, L)
\* with L = round((299 r + 587 g + 114 b) / 1000), halves rounded up.
C4_ExactRounding ==
    (ColorCalled /\ cmArgs[4] = "grayscale")
    => LET L == (WeightedSum + 500) \div 1000
       IN  cmResult[1].threw = "none" /\ ColorValue = <<L, L, L>>

\* C4 as amended: for the mode grayscale applyColorMode returns (L, L, L)
\* with L in [0,255] an integer nearest to (299 r + 587 g + 114 b) / 1000:
\* the rounded value, or, only when the weighted sum is exactly halfway
\* between two integers, possibly the integer below it; black stays black
\* and white stays white.
C4_NearestLuminance ==
    (ColorCalled /\ cmArgs[4] = "grayscale")
    => LET L == ColorValue[1]
       IN  /\ cmResult[1].threw = "none"
           /\ ColorValue = <<L, L, L>>
           /\ L \in 0..255
           /\ 1000 * L - WeightedSum <= 500
           /\ WeightedSum - 1000 * L <= 500
           /\ (WeightedSum % 1000 # 500 => L = (WeightedSum + 500) \div 1000)
           /\ (cmArgs[1] = 0 /\ cmArgs[2] = 0 /\ cmArgs[3] = 0 => L = 0)
           /\ (cmArgs[1] = 255 /\ cmArgs[2] = 255 /\ cmArgs[3] = 255 => L = 255)

\* the weighted sum of (64,128,2) is 94.5 and the luminance returned is 94
C4_TieRoundedDown ==
    /\ ColorCalled
    /\ cmArgs = <<64, 128, 2, "grayscale">>
    /\ ColorValue = <<94, 94, 94>>

\* C5: for the mode full applyColorMode returns (r, g, b) unchanged.
C5_FullIsIdentity ==
    (ColorCalled /\ cmArgs[4] = "full")
    => /\ cmResult[1].threw = "none"
       /\ ColorValue = <<cmArgs[1], cmArgs[2], cmArgs[3]>>

\* a colour of three different channels went through the mode full
C5_FullCalled ==
    /\ ColorCalled
    /\ cmArgs = <<10, 240, 64, "full">>
    /\ ColorValue = <<10, 240, 64>>

\* the options with every absent or unrecognised one replaced by its default
DefaultedOptions(opts) ==
    Options(IF opts.pixelSize = Absent THEN <<defaultPixelSize>> ELSE opts.pixelSize,
            IF opts.colorMode = Absent \/ opts.colorMode[1] \notin RecognisedModes
            THEN <<"full">> ELSE opts.colorMode,
            IF opts.showGrid = Absent THEN <<FALSE>> ELSE opts.showGrid)

\* C6: each option is defaulted on its own and no error is raised for it:
\* the call ends as the call with pixelSize 8 for an absent pixelSize,
\* showGrid false for an absent showGrid and colorMode full for an absent
\* or unrecognised colorMode.
C6_OptionsDefaulted ==
    loc.called
    => LET want == pixelate(PixelatorPalettes, EmptyCanvas, image, DefaultedOptions(options))
       IN  /\ loc.threw = want.loc.threw
           /\ targetCanvas = want.canvas

\* C7: the pixelSize pixelate divides the image dimensions by is in [2,32].
C7_PixelSizeInRange ==
    loc.called => loc.pixelSize \in 2..32

\* the colours the blocks of the last call were filled with
BlockColors ==
    {ReducedColor(PixelatorPalettes,
                  SamplePixel(image, loc.scaledWidth, loc.scaledHeight, x, y),
                  loc.colorMode).value :
        x \in 0..(loc.scaledWidth - 1), y \in 0..(loc.scaledHeight - 1)}

LinesDrawn == \E p \in DOMAIN targetCanvas.data : targetCanvas.data[p].lines > 0

BlocksBelow3 ==
    \/ loc.canvasWidth < 3 * loc.scaledWidth
    \/ loc.canvasHeight < 3 * loc.scaledHeight

\* C8: pixelate draws grid lines only if showGrid is true and blockW >= 3
\* and blockH >= 3; when showGrid is false, or the block width or height
\* is below 3, no line is drawn and every pixel of the output has the fill
\* colour of a block.
C8_GridOnlyOnLargeBlocks ==
    Completed
    => /\ LinesDrawn => options.showGrid = <<TRUE>> /\ ~BlocksBelow3
       /\ (options.showGrid # <<TRUE>> \/ BlocksBelow3)
            => \A p \in DOMAIN targetCanvas.data :
                  /\ targetCanvas.data[p].lines = 0
                  /\ targetCanvas.data[p].opaque
                  /\ targetCanvas.data[p].rgb \in BlockColors

\* showGrid was true, the blocks were 2 wide, and the output has pixels
C8_GridSuppressed ==
    /\ Completed
    /\ options.showGrid = <<TRUE>>
    /\ loc.canvasWidth = 2 * loc.scaledWidth
    /\ targetCanvas.width >= 2 /\ targetCanvas.height >= 2

\* C9: a pixelate call on the input `probe` leaves the canvas, and ends,
\* as the first call on that input did, whatever was pixelated in between.
C9_SameInputSameOutput ==
    (ref # <<>> /\ loc.called /\ Input(image, options) = probe)
    => /\ targetCanvas = ref[1].canvas
       /\ loc.threw = ref[1].threw

\* the probe was pixelated again after a call on another input
C9_ProbeRepeated ==
    /\ ref # <<>> /\ ref[1].between
    /\ loc.called /\ Input(image, options) = probe
    /\ targetCanvas.width >= 1

\* C10: no pixelate call changes Pixelator.palettes or the image it is given.
C10_EngineStateUnchanged ==
    [][palettes' = palettes /\ image' = image]_vars

\* a call in a palette mode ran to its end
C10_PaletteModeCompleted ==
    /\ Completed
    /\ loc.colorMode \in {"16", "1bit"}
    /\ targetCanvas.width >= 1 /\ targetCanvas.height >= 1
    /\ palettes = PixelatorPalettes

-----------------------------------------------------------------------------
(* scripts/canvas.js: DrawingCanvas.  The file holds two object literals   *)
(* of that name; `definition` says which of them the page runs.  They      *)
(* differ in the element that carries the listeners and in touchstart.     *)

Min(a, b) == IF a < b THEN a ELSE b
Max(a, b) == IF a > b THEN a ELSE b

\* a grid whose first cell is born with a character in it
createGridMarked(w, h) ==
    [y \in 1..h |-> [x \in 1..w |-> IF x = 1 /\ y = 1 THEN <<"@">> ELSE Blank]]

\* createGrid(): this.cells = [] and then height rows of width cells, each
\* with textContent ' '; cells[y + 1][x + 1] is the text of cell (x, y)
createGrid(w, h) == [y \in 1..h |-> [x \in 1..w |-> Blank]]

\* createGrid() empties the container and appends a new grid element: the
\* listeners of the former grid element are gone with it
ListenersAfterCreateGrid(ls) == ls \ {"grid"}

\* the element addEventListeners() of the definition adds the listeners to
ListenerElement(d) == IF d = 1 THEN "grid" ELSE "container"

\* addEventListeners(): the drawing listeners, and mouseup on the document
addEventListeners(d, ls) == ls \cup {ListenerElement(d), "document"}

\* this.currentChar = char || ' '
setChar(char) == IF char = EmptyString THEN Blank ELSE char

\* a width that is only capped from above
ResizedWidthCapped(w) == Min(200, w)

\* Math.max(10, Math.min(200, width)) and Math.max(5, Math.min(100, height))
ResizedWidth(w) == Max(10, Min(200, w))
ResizedHeight(h) == Max(5, Min(100, h))

\* a draw that also writes into the first cell of the row
drawCellSmeared(cs, x, y, char) == [cs EXCEPT ![y + 1][x + 1] = char, ![y + 1][1] = char]

\* cell.textContent = this.currentChar, for the cell (x, y)
drawCell(cs, x, y, char) == [cs EXCEPT ![y + 1][x + 1] = char]

\* this.cells[y] && this.cells[y][x]
CellExists(cs, x, y) == y + 1 \in DOMAIN cs /\ x + 1 \in DOMAIN cs[y + 1]

\* a clear that leaves the last row as it is
clearButLastRow(cs, w, h) ==
    [y \in DOMAIN cs |->
        [x \in DOMAIN cs[y] |->
            IF y - 1 < h - 1 /\ x - 1 < w THEN Blank ELSE cs[y][x]]]

\* clear(): textContent = ' ' for every existing cell with y < height, x < width
clear(cs, w, h) ==
    [y \in DOMAIN cs |->
        [x \in DOMAIN cs[y] |->
            IF y - 1 < h /\ x - 1 < w THEN Blank ELSE cs[y][x]]]

\* this.cells[y][x].textContent || ' '
CellText(cs, x, y) == IF cs[y + 1][x + 1] = EmptyString THEN Blank ELSE cs[y + 1][x + 1]

RECURSIVE AsciiRow(_, _, _, _)
\* the inner loop of getAscii() for the cells lo <= x < hi of row y
AsciiRow(cs, y, lo, hi) ==
    IF lo >= hi THEN EmptyString
    ELSE IF hi = lo + 1
         THEN IF CellExists(cs, lo, y) THEN CellText(cs, lo, y) ELSE EmptyString
         ELSE AsciiRow(cs, y, lo, (lo + hi) \div 2) \o AsciiRow(cs, y, (lo + hi) \div 2, hi)

RECURSIVE AsciiRows(_, _, _, _)
\* the outer loop of getAscii() for the rows lo <= y < hi: each row, then '\n'
AsciiRows(cs, w, lo, hi) ==
    IF lo >= hi THEN EmptyString
    ELSE IF hi = lo + 1
         THEN AsciiRow(cs, lo, 0, w) \o <<"\n">>
         ELSE AsciiRows(cs, w, lo, (lo + hi) \div 2) \o AsciiRows(cs, w, (lo + hi) \div 2, hi)

\* getAscii()
getAscii(cs, w, h) == AsciiRows(cs, w, 0, h)

-----------------------------------------------------------------------------
(* app.js: the draw mode of App.                                           *)

\* a Number is <<n>>, and NaN is the empty tuple
NaN == <<>>
DigitValue ==
    [c \in {"0", "1", "2", "3", "4", "5", "6", "7", "8", "9"} |->
        CASE c = "0" -> 0 [] c = "1" -> 1 [] c = "2" -> 2 [] c = "3" -> 3
          [] c = "4" -> 4 [] c = "5" -> 5 [] c = "6" -> 6 [] c = "7" -> 7
          [] c = "8" -> 8 [] c = "9" -> 9]

RECURSIVE ParseDigits(_, _, _, _)
\* the digits of str from position i on, up to the first other character
ParseDigits(str, i, value, any) ==
    IF i <= Len(str) /\ str[i] \in DOMAIN DigitValue
    THEN ParseDigits(str, i + 1, 10 * value + DigitValue[str[i]], TRUE)
    ELSE IF any THEN <<value>> ELSE NaN

RECURSIVE SkipBlanks(_, _)
SkipBlanks(str, i) == IF i <= Len(str) /\ str[i] = " " THEN SkipBlanks(str, i + 1) ELSE i

\* the sign and the digits of str from position i on
ParseSigned(str, i) ==
    IF i <= Len(str) /\ str[i] = "-"
    THEN IF ParseDigits(str, i + 1, 0, FALSE) = NaN THEN NaN
         ELSE <<0 - ParseDigits(str, i + 1, 0, FALSE)[1]>>
    ELSE IF i <= Len(str) /\ str[i] = "+"
         THEN ParseDigits(str, i + 1, 0, FALSE)
         ELSE ParseDigits(str, i, 0, FALSE)

\* parseInt(str, 10)
ParseInt(str) == ParseSigned(str, SkipBlanks(str, 1))

\* n || fallback, for the Number n: NaN and 0 are falsy
OrElse(n, fallback) == IF n = NaN \/ n[1] = 0 THEN fallback ELSE n[1]

\* an update that does not look at the mode
UpdateDrawOutputUnguarded(mode, cs, w, h) ==
    /\ currentAscii' = getAscii(cs, w, h)
    /\ outputText' = getAscii(cs, w, h)

\* updateDrawOutput(), given the mode and the grid it finds
UpdateDrawOutput(mode, cs, w, h) ==
    IF mode = "draw"
    THEN /\ currentAscii' = getAscii(cs, w, h)
         /\ outputText' = getAscii(cs, w, h)
    ELSE UNCHANGED <<currentAscii, outputText>>

\* the elements an event can hit: a cell of the current grid, the grid
\* between its cells, the container around the grid, the rest of the page
Cell(x, y) == [element |-> "cell", x |-> x, y |-> y]
Element(name) == [element |-> name, x |-> 0, y |-> 0]
\* a test that takes every element for a cell
IsDrawCellAny(target) == target # Null
IsDrawCell(target) == target # Null /\ target.element = "cell"

\* the elements an event on the target bubbles through
Path(target) ==
    IF target.element \in {"cell", "grid"} THEN {"grid", "container", "document"}
    ELSE IF target.element = "container" THEN {"container", "document"}
    ELSE {"document"}

\* a drawing listener of the definition in force receives the event
Heard(target) == ListenerElement(definition) \in (listeners \cap Path(target))

PixelateSide ==
    <<loadedImage, pixelSizeSlider, colorModeSelect, gridCheckbox, loads, lastLoad,
      engineVars>>

\* drawCell(cell) for the cell (x, y), with the output update it triggers
DrawCell(x, y) ==
    /\ cells' = drawCell(cells, x, y, currentChar)
    /\ UpdateDrawOutput(currentMode, cells', width, height)

-----------------------------------------------------------------------------
(* The page after App.init(), and the handlers of the draw mode.           *)

MaxCells == 1500     \* the grids of the model have at most MaxCells cells

\* what the user can type into the character, width and height fields
CharInputValues == {EmptyString, <<"a", "b">>}
KeyChars == {<<"@">>}
WidthValues == {<<"9">>, <<"1", "5">>, <<"2", "0", "1">>, EmptyString}
HeightValues == {<<"4">>, <<"8">>, <<"1", "0", "1">>, <<"0">>}
\* SpecDraw: the sizes typed while drawing
DrawWidthValues == {<<"1", "5">>}
DrawHeightValues == {<<"8">>}

CellTargets == {Cell(0, 0), Cell(width - 1, height - 1)}
OtherTargets == {Element("grid"), Element("container"), Element("body")}
Targets == CellTargets \cup OtherTargets
TouchOrigins == {Element("grid"), Element("body")}

\* initDrawCanvas(): the size fields, DrawingCanvas.width and height, and
\* DrawingCanvas.init(this.drawContainer)
InitDrawCanvas(d, isMobile) ==
    /\ canvasWidthValue = (IF isMobile THEN <<"2", "0">> ELSE <<"4", "0">>)
    /\ canvasHeightValue = (IF isMobile THEN <<"1", "5">> ELSE <<"2", "0">>)
    /\ width = ParseInt(canvasWidthValue)[1]
    /\ height = ParseInt(canvasHeightValue)[1]
    /\ definition = d
    /\ container = "draw-grid-container"
    /\ currentChar = <<"@">>
    /\ isDrawing = FALSE
    /\ cells = createGrid(width, height)
    /\ listeners = addEventListeners(d, ListenersAfterCreateGrid({}))

\* App.init(): cacheElements(), bindEvents(), initDrawCanvas() and
\* setStatus('READY'), on a page that has pixelated nothing yet
AppInit(d, isMobile) ==
    /\ palettes = PixelatorPalettes
    /\ image = NoImage
    /\ options = NoOptions
    /\ targetCanvas = EmptyCanvas
    /\ loc = NotCalled
    /\ cmArgs = NoColorCall
    /\ cmResult = NoColorCall
    /\ probe = NoColorCall
    /\ ref = <<>>
    /\ currentMode = "pixelate"
    /\ currentAscii = EmptyString
    /\ outputText = EmptyString
    /\ loadedImage = Null
    /\ statusText = "READY"
    /\ pixelSizeSlider = <<"8">>
    /\ colorModeSelect = "full"
    /\ gridCheckbox = FALSE
    /\ loads = <<>>
    /\ lastLoad = Null
    /\ InitDrawCanvas(d, isMobile)

\* the charInput 'input' listener: DrawingCanvas.setChar(this.charInput.value)
CharInput(char) ==
    /\ currentChar' = setChar(char)
    /\ UNCHANGED <<PixelateSide, currentMode, currentAscii, outputText, statusText,
                   canvasWidthValue, canvasHeightValue>>
    /\ UNCHANGED <<definition, container, width, height, isDrawing, cells, listeners>>

\* the asciiKeyboard 'click' listener, for a key-btn of the character
KeyboardClick(char) ==
    /\ currentChar' = setChar(char)
    /\ UNCHANGED <<PixelateSide, currentMode, currentAscii, outputText, statusText,
                   canvasWidthValue, canvasHeightValue>>
    /\ UNCHANGED <<definition, container, width, height, isDrawing, cells, listeners>>

\* DrawingCanvas.resize(w, h)
Resize(w, h) ==
    /\ ResizedWidth(w) * ResizedHeight(h) <= MaxCells
    /\ width' = ResizedWidth(w)
    /\ height' = ResizedHeight(h)
    /\ cells' = createGrid(width', height')
    /\ listeners' = ListenersAfterCreateGrid(listeners)

\* resizeDrawCanvas(): resize(parseInt(width) || 60, parseInt(height) || 30)
\* and updateDrawOutput()
ResizeDrawCanvas(widthValue, heightValue) ==
    /\ Resize(OrElse(ParseInt(widthValue), 60), OrElse(ParseInt(heightValue), 30))
    /\ UpdateDrawOutput(currentMode, cells', width', height')
    /\ UNCHANGED <<PixelateSide, currentMode, statusText>>
    /\ UNCHANGED <<definition, container, currentChar, isDrawing>>

\* the 'change' listeners of the width and the height field
CanvasWidthChange(value) ==
    /\ canvasWidthValue' = value
    /\ canvasHeightValue' = canvasHeightValue
    /\ ResizeDrawCanvas(value, canvasHeightValue)

CanvasHeightChange(value) ==
    /\ canvasWidthValue' = canvasWidthValue
    /\ canvasHeightValue' = value
    /\ ResizeDrawCanvas(canvasWidthValue, value)

\* the clearCanvasBtn 'click' listener: DrawingCanvas.clear()
ClearClick ==
    /\ cells' = clear(cells, width, height)
    /\ UpdateDrawOutput(currentMode, cells', width, height)
    /\ UNCHANGED <<PixelateSide, currentMode, statusText, canvasWidthValue, canvasHeightValue>>
    /\ UNCHANGED <<definition, container, width, height, currentChar, isDrawing, listeners>>

\* switchMode(mode), from the click on btnPixelate or btnDraw
SwitchMode(mode) ==
    /\ currentMode' = mode
    /\ UpdateDrawOutput(mode, cells, width, height)
    /\ statusText' = (IF mode = "pixelate" THEN "PIXELATE MODE" ELSE "DRAW MODE")
    /\ UNCHANGED <<PixelateSide, canvasWidthValue, canvasHeightValue, drawVars>>

\* what no handler of the grid touches
GridFrame ==
    UNCHANGED <<PixelateSide, currentMode, statusText, canvasWidthValue, canvasHeightValue,
                definition, container, width, height, currentChar, listeners>>

\* a handler that returns without doing anything, or that is not attached
Ignored == UNCHANGED <<isDrawing, cells, currentAscii, outputText>>

\* the 'mousedown' listener
MouseDown(target) ==
    /\ IF Heard(target) /\ IsDrawCell(target)
       THEN isDrawing' = TRUE /\ DrawCell(target.x, target.y)
       ELSE Ignored
    /\ GridFrame

\* the 'mousemove' listener
MouseMove(target) ==
    /\ IF Heard(target) /\ isDrawing /\ IsDrawCell(target)
       THEN isDrawing' = isDrawing /\ DrawCell(target.x, target.y)
       ELSE Ignored
    /\ GridFrame

\* the 'mouseup' listener of the document
MouseUp ==
    /\ isDrawing' = (IF "document" \in listeners THEN FALSE ELSE isDrawing)
    /\ UNCHANGED <<cells, currentAscii, outputText>>
    /\ GridFrame

\* the 'touchstart' listener, the touch being on the target: the first
\* definition starts a stroke wherever the touch is, the second on a cell only
TouchStart(target) ==
    /\ IF Heard(target) /\ IsDrawCell(target)
       THEN isDrawing' = TRUE /\ DrawCell(target.x, target.y)
       ELSE IF Heard(target) /\ definition = 1
            THEN isDrawing' = TRUE /\ UNCHANGED <<cells, currentAscii, outputText>>
            ELSE Ignored
    /\ GridFrame

\* the 'touchmove' listener, for a touch that began on origin and is now
\* over the element document.elementFromPoint() finds (null outside the page)
TouchMove(origin, point) ==
    /\ IF Heard(origin) /\ isDrawing /\ IsDrawCell(point)
       THEN isDrawing' = isDrawing /\ DrawCell(point.x, point.y)
       ELSE Ignored
    /\ GridFrame

\* the 'touchend' listener, for a touch that began on origin
TouchEnd(origin) ==
    /\ isDrawing' = (IF Heard(origin) THEN FALSE ELSE isDrawing)
    /\ UNCHANGED <<cells, currentAscii, outputText>>
    /\ GridFrame

\* the 'touchcancel' listener, which only the second definition has
TouchCancel(origin) ==
    /\ isDrawing' = (IF Heard(origin) /\ definition = 2 THEN FALSE ELSE isDrawing)
    /\ UNCHANGED <<cells, currentAscii, outputText>>
    /\ GridFrame

\* SpecDraw: the page after App.init() on a screen at most 600 wide, and
\* every handler of the draw mode
InitDraw == \E d \in {1, 2} : AppInit(d, TRUE)

NextDraw ==
    \/ \E char \in CharInputValues : CharInput(char)
    \/ \E char \in KeyChars : KeyboardClick(char)
    \/ \E value \in DrawWidthValues : CanvasWidthChange(value)
    \/ \E value \in DrawHeightValues : CanvasHeightChange(value)
    \/ ClearClick
    \/ \E mode \in {"pixelate", "draw"} : SwitchMode(mode)
    \/ \E target \in Targets : MouseDown(target)
    \/ \E target \in Targets : MouseMove(target)
    \/ MouseUp
    \/ \E target \in Targets : TouchStart(target)
    \/ \E origin \in TouchOrigins, point \in Targets \cup {Null} : TouchMove(origin, point)
    \/ \E origin \in TouchOrigins : TouchEnd(origin)
    \/ \E origin \in TouchOrigins : TouchCancel(origin)

SpecDraw == InitDraw /\ [][NextDraw]_vars

\* SpecResize: the page after App.init() on either screen; the user switches
\* to the draw mode, draws with the mouse, clears, and types any of the
\* characters and sizes
InitResize == \E d \in {1, 2}, isMobile \in BOOLEAN : AppInit(d, isMobile)

NextResize ==
    \/ \E value \in WidthValues : CanvasWidthChange(value)
    \/ \E value \in HeightValues : CanvasHeightChange(value)
    \/ \E target \in CellTargets : MouseDown(target)
    \/ MouseUp
    \/ \E char \in CharInputValues : CharInput(char)
    \/ ClearClick
    \/ SwitchMode("draw")

SpecResize == InitResize /\ [][NextResize]_vars

-----------------------------------------------------------------------------
(* app.js: the pixelate mode of App.  The preview canvas, which nothing    *)
(* reads back, is left out.                                                *)

MaxLoads == 2        \* at most MaxLoads files are being loaded at a time

File(name, type, img) == [name |-> name, type |-> type, image |-> img]
ImagePng == <<"i", "m", "a", "g", "e", "/", "p", "n", "g">>
TextPlain == <<"t", "e", "x", "t", "/", "p", "l", "a", "i", "n">>

\* the files the user has: two pictures, a file that says it is a picture and
\* cannot be decoded, and a text file
PhotoFile == File("photo.png", ImagePng, Image(8, 8, 0))
IconFile == File("icon.png", ImagePng, Image(4, 2, 0))
BrokenFile == File("broken.png", ImagePng, Null)
NotesFile == File("notes.txt", TextPlain, Null)
Files == {PhotoFile, IconFile, BrokenFile, NotesFile}

SliderValues == {<<"2">>, <<"8">>}
ColorModeValues == {"full", "1bit"}

\* reject(new Error('Failed to load image')), reject(new Error('Failed to read file'))
LoadErrors == {"Failed to load image", "Failed to read file"}

\* str.startsWith(prefix)
StartsWith(str, prefix) ==
    Len(str) >= Len(prefix) /\ SubSeq(str, 1, Len(prefix)) = prefix

\* a test that lets null through
TruthyAlways(value) == TRUE

\* if (this.loadedImage), if (!this.loadedImage): null is the only falsy value
\* the field takes
Truthy(value) == value # Null

Load(file, before) == [file |-> file, before |-> before]
\* the history of the latest call: its file, and "pending", "resolved" or
\* "rejected"; the latest call, while pending, is the last of loads
LastLoad(file, state) == [file |-> file, state |-> state]
LastLoadAfter(i, state) ==
    IF lastLoad # Null /\ lastLoad.state = "pending" /\ i = Len(loads)
    THEN LastLoad(lastLoad.file, state) ELSE lastLoad
WithoutLoad(ls, i) == SubSeq(ls, 1, i - 1) \o SubSeq(ls, i + 1, Len(ls))

\* Pixelator.pixelate(img, opts, this.outputCanvas): image.width of a null
\* image throws TypeError before the canvas is touched
InvokePixelate(img, opts) ==
    IF img = Null
    THEN /\ image' = img
         /\ options' = opts
         /\ loc' = [NotCalled EXCEPT !.called = TRUE, !.threw = "TypeError"]
         /\ UNCHANGED <<palettes, targetCanvas, cmArgs, cmResult>>
    ELSE Pixelate(img, opts)

\* pixelateImage() with this.loadedImage = img: what it does to the engine
\* and the output canvas
PixelateImage(img, slider, mode, grid) ==
    IF ~Truthy(img)
    THEN UNCHANGED <<palettes, image, options, targetCanvas, loc, cmArgs, cmResult>>
    ELSE InvokePixelate(img, Options(ParseInt(slider), <<mode>>, <<grid>>))

\* pixelateImage(): the status it leaves
PixelateImageStatus(img, status, threw) ==
    IF ~Truthy(img) THEN status
    ELSE IF threw = "none" THEN "PIXELATION COMPLETE" ELSE "ERROR: Pixelation failed"

\* what no handler of the pixelate mode touches
PixelateFrame ==
    UNCHANGED <<probe, ref, currentMode, currentAscii, outputText,
                canvasWidthValue, canvasHeightValue, drawVars>>

\* processImage(file) up to the await
ProcessImage(file) ==
    /\ Len(loads) < MaxLoads
    /\ statusText' = "LOADING IMAGE..."
    /\ loads' = Append(loads, Load(file, loadedImage))
    /\ lastLoad' = LastLoad(file, "pending")
    /\ UNCHANGED <<loadedImage, palettes, image, options, targetCanvas, loc, cmArgs, cmResult>>

NothingDone ==
    UNCHANGED <<statusText, loads, lastLoad, loadedImage, palettes, image, options, targetCanvas,
                loc, cmArgs, cmResult>>

\* handleFileSelect(e), e.target.files[0] being the file or undefined
HandleFileSelect(file) ==
    /\ IF file # Null /\ StartsWith(file.type, <<"i", "m", "a", "g", "e", "/">>)
       THEN ProcessImage(file)
       ELSE NothingDone
    /\ UNCHANGED <<pixelSizeSlider, colorModeSelect, gridCheckbox>>
    /\ PixelateFrame

\* the 'drop' listener of the upload zone, e.dataTransfer.files being files
Drop(files) ==
    /\ IF Len(files) > 0 /\ StartsWith(files[1].type, <<"i", "m", "a", "g", "e", "/">>)
       THEN ProcessImage(files[1])
       ELSE NothingDone
    /\ UNCHANGED <<pixelSizeSlider, colorModeSelect, gridCheckbox>>
    /\ PixelateFrame

\* processImage after the await, the promise of loads[i] fulfilled
LoadResolved(i) ==
    /\ i \in DOMAIN loads
    /\ loads[i].file.image # Null
    /\ loadedImage' = loads[i].file.image
    /\ PixelateImage(loadedImage', pixelSizeSlider, colorModeSelect, gridCheckbox)
    /\ statusText' = "IMAGE LOADED"
    /\ loads' = WithoutLoad(loads, i)
    /\ lastLoad' = LastLoadAfter(i, "resolved")
    /\ UNCHANGED <<pixelSizeSlider, colorModeSelect, gridCheckbox>>
    /\ PixelateFrame

\* a catch block that also forgets the image loaded before
LoadRejectedForgets(i, message) ==
    /\ i \in DOMAIN loads
    /\ statusText' = "ERROR: " \o message
    /\ loads' = WithoutLoad(loads, i)
    /\ lastLoad' = LastLoadAfter(i, "rejected")
    /\ loadedImage' = Null
    /\ UNCHANGED <<palettes, image, options, targetCanvas, loc, cmArgs, cmResult>>
    /\ UNCHANGED <<pixelSizeSlider, colorModeSelect, gridCheckbox>>
    /\ PixelateFrame

\* processImage after the await, the promise of loads[i] rejected
LoadRejected(i, message) ==
    /\ i \in DOMAIN loads
    /\ statusText' = "ERROR: " \o message
    /\ loads' = WithoutLoad(loads, i)
    /\ lastLoad' = LastLoadAfter(i, "rejected")
    /\ UNCHANGED <<loadedImage, palettes, image, options, targetCanvas, loc, cmArgs, cmResult>>
    /\ UNCHANGED <<pixelSizeSlider, colorModeSelect, gridCheckbox>>
    /\ PixelateFrame

\* a control changed: if (this.loadedImage) this.pixelateImage()
ControlChanged ==
    /\ IF Truthy(loadedImage)
       THEN /\ PixelateImage(loadedImage, pixelSizeSlider', colorModeSelect', gridCheckbox')
            /\ statusText' = PixelateImageStatus(loadedImage, statusText, loc'.threw)
       ELSE UNCHANGED <<statusText, palettes, image, options, targetCanvas, loc,
                        cmArgs, cmResult>>
    /\ UNCHANGED <<loadedImage, loads, lastLoad>>
    /\ PixelateFrame

\* the 'input' listener of the pixel size slider
SliderInput(value) ==
    /\ pixelSizeSlider' = value
    /\ UNCHANGED <<colorModeSelect, gridCheckbox>>
    /\ ControlChanged

\* the 'change' listener of the colour mode select
ColorModeChange(value) ==
    /\ colorModeSelect' = value
    /\ UNCHANGED <<pixelSizeSlider, gridCheckbox>>
    /\ ControlChanged

\* the 'change' listener of the grid checkbox
GridCheckboxChange(checked) ==
    /\ gridCheckbox' = checked
    /\ UNCHANGED <<pixelSizeSlider, colorModeSelect>>
    /\ ControlChanged

\* SpecApp: the page after App.init(), and the user in the pixelate panel
InitApp == \E isMobile \in {FALSE} : AppInit(2, isMobile)

NextApp ==
    \/ \E file \in Files \cup {Null} : HandleFileSelect(file)
    \/ \E files \in {<<>>} \cup {<<file>> : file \in Files} : Drop(files)
    \/ \E i \in 1..MaxLoads : LoadResolved(i)
    \/ \E i \in 1..MaxLoads, message \in LoadErrors : LoadRejected(i, message)
    \/ \E value \in SliderValues : SliderInput(value)
    \/ \E value \in ColorModeValues : ColorModeChange(value)
    \/ \E checked \in BOOLEAN : GridCheckboxChange(checked)

SpecApp == InitApp /\ [][NextApp]_vars

-----------------------------------------------------------------------------
(* The claims about the application.                                       *)

\* C11: whatever the order of file selections, drops, control changes and
\* load completions or failures, the image of every pixelate call is an
\* image: pixelate is never invoked with null.
C11_NeverNullImage ==
    loc.called => image # Null

\* the image of a finished load was pixelated while another load is pending
C11_PixelatedWhileLoading ==
    /\ loc.called
    /\ image = loadedImage
    /\ Len(loads) > 0
    /\ statusText = "PIXELATION COMPLETE"

ErrorStatuses == {"ERROR: " \o message : message \in LoadErrors}

\* a processImage call came to its end in this step: loads[i] is gone
LoadEnded(i) == i \in DOMAIN loads /\ loads' = WithoutLoad(loads, i)

\* C12 as stated: when the load of a file fails, processImage ends with the
\* status 'ERROR: ' + message, App.loadedImage is what it was when the load
\* started, and pixelate is not invoked.
C12_ImageAsAtLoadStart ==
    [][\A i \in 1..MaxLoads :
          (LoadEnded(i) /\ statusText' \in ErrorStatuses)
          => /\ loadedImage' = loads[i].before
             /\ UNCHANGED <<image, options, targetCanvas, loc>>]_vars

\* C12 as amended: when the load of a file fails (as that of a file that
\* cannot be decoded always does), processImage ends with the status
\* 'ERROR: ' + message, it leaves App.loadedImage as it finds it, and
\* pixelate is not invoked.
C12_FailedLoadChangesNothing ==
    [][\A i \in 1..MaxLoads :
          /\ (LoadEnded(i) /\ loads[i].file.image = Null)
             => statusText' \in ErrorStatuses
          /\ (LoadEnded(i) /\ statusText' \in ErrorStatuses)
             => /\ loadedImage' = loadedImage
                /\ UNCHANGED <<image, options, targetCanvas, loc>>]_vars

\* a load failed while an image loaded earlier is in place
C12_FailedWithImageLoaded ==
    /\ statusText = "ERROR: Failed to load image"
    /\ loadedImage = PhotoFile.image
    /\ loc.called

\* C13: a pixelate call that throws leaves the target canvas as it was
\* before the call: same width, same height, same pixels.
C13_NoPartialResult ==
    [][(loc'.threw # "none" /\ <<image, options, loc>>' # <<image, options, loc>>)
       => targetCanvas' = targetCanvas]_vars

-----------------------------------------------------------------------------
(* The claims about the drawing grid.                                      *)

\* n clamped to [lo, hi]
Clamped(n, lo, hi) == IF n < lo THEN lo ELSE IF n > hi THEN hi ELSE n

\* the number a size field holds: its integer, or the fallback when it holds
\* none or 0
TypedSize(value, fallback) ==
    IF ParseInt(value) = NaN \/ ParseInt(value) = <<0>> THEN fallback ELSE ParseInt(value)[1]

\* C14: after App.init() and any resize, clear, setChar and draw, the width is
\* in [10,200] and the height in [5,100]; a resize sets the width to the
\* width asked for clamped to [10,200] and the height to the height asked for
\* clamped to [5,100], each on its own.
C14_SizeWithinLimits ==
    /\ width \in 10..200
    /\ height \in 5..100
    /\ width = Clamped(TypedSize(canvasWidthValue, 60), 10, 200)
    /\ height = Clamped(TypedSize(canvasHeightValue, 30), 5, 100)

\* 201 x 4 was asked for: the width was cut to 200 and the height raised to 5
C14_BothClamped ==
    /\ canvasWidthValue = <<"2", "0", "1">>
    /\ canvasHeightValue = <<"4">>
    /\ width = 200
    /\ height = 5
    /\ Len(cells) = 5

\* C15: after any setChar (with any string), cell draw, clear and resize,
\* getAscii() is height rows from top to bottom, each of exactly width
\* characters followed by one newline, the last row included.
C15_RowsOfWidth ==
    LET ascii == getAscii(cells, width, height)
    IN  /\ Len(ascii) = height * (width + 1)
        /\ \A i \in 1..Len(ascii) : (ascii[i] = "\n") <=> (i % (width + 1) = 0)

\* h rows of w blanks, each row followed by a newline
BlankAscii(w, h) == [i \in 1..(h * (w + 1)) |-> IF i % (w + 1) = 0 THEN "\n" ELSE " "]

\* the step is a resize of the grid
ResizeStep ==
    \/ \E value \in WidthValues : CanvasWidthChange(value)
    \/ \E value \in HeightValues : CanvasHeightChange(value)

\* C16: right after resize(w, h), whatever was drawn before, the cell array
\* has the clamped height rows of the clamped width cells, every cell is a
\* blank, and getAscii() is that many rows of blanks.
C16_ResizeDiscardsContent ==
    [][ResizeStep
       => /\ width' = Clamped(TypedSize(canvasWidthValue', 60), 10, 200)
          /\ height' = Clamped(TypedSize(canvasHeightValue', 30), 5, 100)
          /\ Len(cells') = height'
          /\ \A y \in 1..height' :
                /\ Len(cells'[y]) = width'
                /\ \A x \in 1..width' : cells'[y][x] = Blank
          /\ getAscii(cells', width', height') = BlankAscii(width', height')]_vars

\* the grid was resized to 15 x 8 in the draw mode, during a stroke, and the
\* output shows 8 rows of 15 blanks
C16_ResizedTo15x8 ==
    /\ canvasWidthValue = <<"1", "5">>
    /\ canvasHeightValue = <<"8">>
    /\ isDrawing
    /\ currentMode = "draw"
    /\ currentAscii = BlankAscii(15, 8)
    /\ Len(currentAscii) = 8 * 16

\* the step is drawCell(cell) for the cell (x, y) of the grid, in a stroke
DrawStep(x, y) == GridFrame /\ isDrawing' /\ DrawCell(x, y)

\* what getAscii() emits before it comes to the cell (x, y), and after it
AsciiBefore(cs, w, x, y) == AsciiRows(cs, w, 0, y) \o AsciiRow(cs, y, 0, x)
AsciiAfter(cs, w, h, x, y) ==
    AsciiRow(cs, y, x + 1, w) \o <<"\n">> \o AsciiRows(cs, w, y + 1, h)

OneCharacterPerCell(cs) ==
    \A y \in DOMAIN cs : \A x \in DOMAIN cs[y] : Len(cs[y][x]) = 1

\* the output has the current character between what the grid had before
\* the cell (x, y) and after it
ShownAt(after, x, y) ==
    /\ after = AsciiBefore(cells, width, x, y) \o currentChar
                 \o AsciiAfter(cells, width, height, x, y)
    /\ OneCharacterPerCell(cells')
         => /\ Len(after) = height * (width + 1)
            /\ after[y * (width + 1) + x + 1] = currentChar[1]

GridUntouched ==
    /\ cells' = cells /\ width' = width /\ height' = height
    /\ currentAscii' = currentAscii /\ outputText' = outputText

\* C18: a mouse or touch event whose target is not a cell of the grid changes
\* no cell and leaves the getAscii() output as it was, and a mousedown on
\* such a target starts no stroke.
C18_OffGridIsNoOp ==
    [][\A target \in OtherTargets :
          /\ MouseDown(target) => GridUntouched /\ isDrawing' = isDrawing
          /\ MouseMove(target) => GridUntouched
          /\ TouchStart(target) => GridUntouched
          /\ \A origin \in TouchOrigins :
                /\ TouchMove(origin, target) => GridUntouched
                /\ TouchMove(origin, Null) => GridUntouched]_vars

\* a stroke is under way on a grid whose first cell is drawn: the pointer
\* can now pass over the grid between the cells, or leave it
C18_StrokeUnderWay ==
    /\ isDrawing
    /\ currentMode = "draw"
    /\ cells[1][1] = <<"@">>
    /\ cells[height][width] = Blank
    /\ currentAscii[1] = "@"

\* C19: clear() makes every cell of the grid a blank, getAscii() is then
\* rows of blanks, and the width, the height, the current character and
\* isDrawing are as before.
C19_ClearBlanksGrid ==
    [][ClearClick
       => /\ DOMAIN cells' = 1..height
          /\ \A y \in DOMAIN cells' :
                /\ DOMAIN cells'[y] = 1..width
                /\ \A x \in DOMAIN cells'[y] : cells'[y][x] = Blank
          /\ getAscii(cells', width', height') = BlankAscii(width, height)
          /\ width' = width /\ height' = height
          /\ currentChar' = currentChar
          /\ isDrawing' = isDrawing]_vars

\* the grid is blank in the middle of a stroke, with 'ab' as the current
\* character and the output showing the blank grid
C19_ClearedInStroke ==
    /\ isDrawing
    /\ currentChar = <<"a", "b">>
    /\ currentMode = "draw"
    /\ \A y \in DOMAIN cells : \A x \in DOMAIN cells[y] : cells[y][x] = Blank
    /\ currentAscii = BlankAscii(width, height)

\* C20: after init and any number of resizes, a mousedown on a cell of the
\* current grid draws the current character into that cell and starts a
\* stroke.
C20_ListenersSurviveResize ==
    \A target \in CellTargets :
        ENABLED /\ MouseDown(target)
                /\ cells'[target.y + 1][target.x + 1] = currentChar
                /\ isDrawing'

-----------------------------------------------------------------------------
(* Claims about the geometry of the output of pixelate.                    *)

\* blockW and blockH of the last call
BlockW == DivD(loc.canvasWidth, loc.scaledWidth)
BlockH == DivD(loc.canvasHeight, loc.scaledHeight)

\* the first and second arguments of fillRect for the block of sample i,
\* and the third and fourth
BlockOrigin(i, block) == FloorD(MulD(i, block))
BlockSide(block) == CeilD(block)

SampleGridFilled ==
    Completed /\ loc.scaledWidth >= 1 /\ loc.scaledHeight >= 1

\* the blocks 0 .. samples - 1 along one axis of a raster of the given size:
\* each begins where the one before ends or one unit earlier, the first at
\* 0, and the last ends at the edge
AxisTiled(samples, size, block) ==
    /\ BlockOrigin(0, block) = 0
    /\ \A i \in 0..(samples - 2) :
          BlockOrigin(i, block) + BlockSide(block) - BlockOrigin(i + 1, block) \in {0, 1}
    /\ BlockOrigin(samples - 1, block) + BlockSide(block) = size

\* C21: after a call that filled a sample grid of at least 1 x 1, every
\* pixel of the output is covered by a block, two neighbouring blocks
\* overlap by at most one unit and leave no gap, and the last block of each
\* row and of each column ends at the edge of the raster.
C21_BlocksTileOutput ==
    SampleGridFilled
    => /\ targetCanvas.width = loc.canvasWidth
       /\ targetCanvas.height = loc.canvasHeight
       /\ \A p \in DOMAIN targetCanvas.data : targetCanvas.data[p].opaque
       /\ AxisTiled(loc.scaledWidth, loc.canvasWidth, BlockW)
       /\ AxisTiled(loc.scaledHeight, loc.canvasHeight, BlockH)

\* 289 samples were filled into 399 columns: the blocks are 2 wide and
\* begin 1 or 2 apart
C21_OverlappingBlocks ==
    /\ SampleGridFilled
    /\ loc.scaledWidth = 289 /\ loc.canvasWidth = 399
    /\ BlockSide(BlockW) = 2
    /\ BlockOrigin(1, BlockW) = 1
    /\ BlockOrigin(3, BlockW) - BlockOrigin(2, BlockW) = 2

\* the call came to a sample grid of at least 1 x 1
SampleGridAtLeastOne == loc.called /\ loc.scaledWidth >= 1 /\ loc.scaledHeight >= 1

\* C22: blockW and blockH are at most the pixelSize of the call, and when
\* scaledWidth * pixelSize and scaledHeight * pixelSize are both at most 400
\* the output is exactly scaledWidth * pixelSize by scaledHeight * pixelSize.
C22_BlockAtMostPixelSize ==
    SampleGridAtLeastOne
    => /\ ~LessD(NumD(loc.pixelSize), BlockW)
       /\ ~LessD(NumD(loc.pixelSize), BlockH)
       /\ (/\ loc.scaledWidth * loc.pixelSize <= maxSize
           /\ loc.scaledHeight * loc.pixelSize <= maxSize)
          => /\ loc.canvasWidth = loc.scaledWidth * loc.pixelSize
             /\ loc.canvasHeight = loc.scaledHeight * loc.pixelSize

\* 13 samples of pixelSize 32 would be 416 wide: the output is capped and
\* the blocks are narrower than 32
C22_CappedBelowPixelSize ==
    /\ SampleGridAtLeastOne
    /\ loc.pixelSize = 32 /\ loc.scaledWidth = 13 /\ loc.scaledHeight = 1
    /\ loc.canvasWidth <= maxSize
    /\ LessD(BlockW, NumD(32))
    /\ LessD(BlockH, NumD(32))

Uncapped ==
    /\ loc.scaledWidth * loc.pixelSize <= maxSize
    /\ loc.scaledHeight * loc.pixelSize <= maxSize

-----------------------------------------------------------------------------
(* Claims about the order of loads, the shown output, the status and the   *)
(* strokes.                                                                *)

\* C24: once the loads have settled, that of the file submitted last having
\* succeeded, App.loadedImage and the pixelated output are those of the file
\* submitted last, in whatever order the loads completed.
C24_LastSubmittedWins ==
    (loads = <<>> /\ lastLoad # Null /\ lastLoad.state = "resolved")
    => /\ loadedImage = lastLoad.file.image
       /\ image = lastLoad.file.image

\* App.currentAscii and the shown text are getAscii() of the grid as it is
OutputInStep ==
    /\ currentAscii = getAscii(cells, width, height)
    /\ outputText = currentAscii

\* C25: in the draw mode, after every operation (switchMode, a draw on a
\* cell, clear, resizeDrawCanvas, setChar), App.currentAscii and the shown
\* text are getAscii() of the current grid; in the pixelate mode no
\* operation changes them.
C25_OutputFollowsGrid ==
    /\ [](currentMode = "draw" => OutputInStep)
    /\ [][(currentMode = "pixelate" /\ currentMode' = "pixelate")
          => UNCHANGED <<currentAscii, outputText>>]_vars

\* the pixelate mode after a visit to the draw mode: a cell drawn since is
\* in the grid and not in App.currentAscii, which still shows the blank grid
C25_DrawnInPixelateMode ==
    /\ currentMode = "pixelate"
    /\ cells[1][1] = <<"@">>
    /\ currentAscii = BlankAscii(width, height)
    /\ outputText = currentAscii

\* C26: when the image of a file loads and the pixelation processImage
\* then triggers fails, processImage ends with the status
\* 'ERROR: Pixelation failed'.
C26_FailureStatusKept ==
    [][\A i \in 1..MaxLoads :
          (LoadResolved(i) /\ loc'.threw # "none")
          => statusText' = "ERROR: Pixelation failed"]_vars

\* a stroke begins in this step
StrokeBegins == ~isDrawing /\ isDrawing'

\* a touch that began on the grid can end or be cancelled, and that ends
\* the stroke
TouchEndsStroke ==
    /\ ENABLED (TouchEnd(Element("grid")) /\ ~isDrawing')
    /\ ENABLED (TouchCancel(Element("grid")) /\ ~isDrawing')

\* C27: isDrawing becomes true by a mousedown (or the start of a touch) on
\* a cell and by nothing else, a mouseup anywhere ends the stroke, and so
\* do touchend and touchcancel; a mousemove over a cell outside a stroke
\* changes no cell.
C27_StrokeFromDownToUp ==
    /\ [](isDrawing => TouchEndsStroke)
    /\ [][/\ StrokeBegins
             => \E target \in CellTargets : MouseDown(target) \/ TouchStart(target)
          /\ MouseUp => ~isDrawing'
          /\ \A target \in CellTargets :
                (MouseMove(target) /\ ~isDrawing) => cells' = cells]_vars

=============================================================================
